---- MODULE Spec2Model ----
(***************************************************************************)
(* The payload-normalisation engine of ui/edi_tracking.py.                 *)
(*                                                                         *)
(* A JSON value is a one-field record whose field name is its type:        *)
(*   [none |-> TRUE]   None / JSON null                                    *)
(*   [bool |-> b]      bool                                                *)
(*   [num  |-> n]      int                                                 *)
(*   [str  |-> s]      str, s a sequence of one-character strings          *)
(*   [arr  |-> a]      list, a a sequence of values                        *)
(*   [obj  |-> o]      dict, o a sequence of <<key, value>> pairs with     *)
(*                     distinct keys, in insertion order (a key is a       *)
(*                     sequence of characters)                             *)
(* An exception leaving a function is the value [raised |-> kind].         *)
(***************************************************************************)
EXTENDS Integers, Sequences, FiniteSets, TLC

VARIABLES payload, called, result

vars == <<payload, called, result>>

None == [none |-> TRUE]
Bool(b) == [bool |-> b]
Num(n) == [num |-> n]
Str(s) == [str |-> s]
Arr(a) == [arr |-> a]
Obj(o) == [obj |-> o]
Raised(e) == [raised |-> e]

IsNone(v) == DOMAIN v = {"none"}
IsBool(v) == DOMAIN v = {"bool"}
IsNum(v) == DOMAIN v = {"num"}
IsStr(v) == DOMAIN v = {"str"}
IsArr(v) == DOMAIN v = {"arr"}
IsObj(v) == DOMAIN v = {"obj"}
IsRaised(v) == DOMAIN v = {"raised"}

(***************************************************************************)
(* Characters.  SUP2 is U+00B2 SUPERSCRIPT TWO: str.isdigit() accepts it,  *)
(* int() does not.                                                         *)
(***************************************************************************)
SUP2 == "U+00B2"
Whitespace == {" ", "\t", "\n"}
DecimalDigits == <<"0", "1", "2", "3", "4", "5", "6", "7", "8", "9">>
UpperCase == <<"A", "B", "C", "D", "E", "F", "G", "H", "I", "J", "K", "L", "M",
               "N", "O", "P", "Q", "R", "S", "T", "U", "V", "W", "X", "Y", "Z">>
LowerCase == <<"a", "b", "c", "d", "e", "f", "g", "h", "i", "j", "k", "l", "m",
               "n", "o", "p", "q", "r", "s", "t", "u", "v", "w", "x", "y", "z">>

Range(s) == {s[i] : i \in DOMAIN s}

IsDecimal(c) == c \in Range(DecimalDigits)

DigitValue(c) == (CHOOSE i \in DOMAIN DecimalDigits : DecimalDigits[i] = c) - 1

\* str.strip(): leading and trailing whitespace removed.
RECURSIVE lstrip(_)
lstrip(s) == IF s # <<>> /\ Head(s) \in Whitespace THEN lstrip(Tail(s)) ELSE s

RECURSIVE rstrip(_)
rstrip(s) ==
    IF s # <<>> /\ s[Len(s)] \in Whitespace
    THEN rstrip(SubSeq(s, 1, Len(s) - 1))
    ELSE s

strip(s) == rstrip(lstrip(s))

\* str.lower()
lower(s) ==
    [i \in DOMAIN s |->
        IF s[i] \in Range(UpperCase)
        THEN LowerCase[CHOOSE j \in DOMAIN UpperCase : UpperCase[j] = s[i]]
        ELSE s[i]]

\* str.startswith(c) for a one-character prefix
startswith(s, c) == s # <<>> /\ Head(s) = c

\* str.isdigit(): non-empty and every character has the Unicode digit property
isdigit(s) == s # <<>> /\ \A i \in DOMAIN s : IsDecimal(s[i]) \/ s[i] = SUP2

\* int(s) for a string that passed isdigit(): a decimal literal converts, any other
\* digit character makes int() raise ValueError.
RECURSIVE DecimalValue(_)
DecimalValue(s) ==
    IF s = <<>> THEN 0
    ELSE 10 * DecimalValue(SubSeq(s, 1, Len(s) - 1)) + DigitValue(s[Len(s)])

int(s) ==
    IF s # <<>> /\ \A i \in DOMAIN s : IsDecimal(s[i])
    THEN Num(DecimalValue(s))
    ELSE Raised("ValueError")

\* str(n) for an int
RECURSIVE NatToStr(_)
NatToStr(n) ==
    IF n < 10 THEN <<DecimalDigits[n + 1]>>
    ELSE NatToStr(n \div 10) \o <<DecimalDigits[(n % 10) + 1]>>

IntToStr(n) == IF n < 0 THEN <<"-">> \o NatToStr(-n) ELSE NatToStr(n)

(***************************************************************************)
(* dict                                                                    *)
(***************************************************************************)
Keys(o) == [i \in DOMAIN o |-> o[i][1]]

\* key in d
Has(d, k) == \E i \in DOMAIN d.obj : d.obj[i][1] = k

\* d.get(k)
Get(d, k) ==
    IF Has(d, k)
    THEN d.obj[CHOOSE i \in DOMAIN d.obj : d.obj[i][1] = k][2]
    ELSE None

\* d[k] = v: an existing key keeps its place, a new key goes last
Put(o, k, v) ==
    IF \E i \in DOMAIN o : o[i][1] = k
    THEN [i \in DOMAIN o |-> IF o[i][1] = k THEN <<k, v>> ELSE o[i]]
    ELSE Append(o, <<k, v>>)

\* d.update(e)
RECURSIVE update(_, _)
update(o, e) ==
    IF e = <<>> THEN o
    ELSE update(Put(o, Head(e)[1], Head(e)[2]), Tail(e))

\* bool(v): the truth value Python's `not` and `or` test
Truthy(v) ==
    CASE IsNone(v) -> FALSE
      [] IsBool(v) -> v.bool
      [] IsNum(v) -> v.num # 0
      [] IsStr(v) -> v.str # <<>>
      [] IsArr(v) -> v.arr # <<>>
      [] IsObj(v) -> v.obj # <<>>

\* a or b
Or(a, b) == IF Truthy(a) THEN a ELSE b

(***************************************************************************)
(* json.loads(text): a recursive-descent reading of the JSON grammar over  *)
(* the model's characters.  A scan returns [ok, v, i]: the value read and  *)
(* the index after it, or Fail.  Numbers are integers; of the \u escapes   *)
(* only \u00b2 is read (the alphabet has no other non-ASCII character).   *)
(***************************************************************************)
Fail == [ok |-> FALSE]

At(s, i) == IF i \in DOMAIN s THEN s[i] ELSE "EOF"

Match(s, i, lit) ==
    /\ i + Len(lit) - 1 <= Len(s)
    /\ SubSeq(s, i, i + Len(lit) - 1) = lit

RECURSIVE SkipWs(_, _)
SkipWs(s, i) == IF At(s, i) \in Whitespace THEN SkipWs(s, i + 1) ELSE i

Max(S) == CHOOSE x \in S : \A y \in S : y <= x
Min(S) == CHOOSE x \in S : \A y \in S : x <= y

\* Inside a string literal whose first character is s[i]: s[p] is escaped when an odd
\* number of backslashes ends just before it.
Escaped(s, i, p) ==
    /\ p > i
    /\ s[p - 1] = "\\"
    /\ LET stop == {m \in i .. p - 1 : s[m] # "\\"}
       IN  (IF stop = {} THEN p - i ELSE p - 1 - Max(stop)) % 2 = 1

\* s[p] is one of the four hex digits of a \u escape
InHex(s, i, p) == \E k \in 1 .. 4 : p - k >= i /\ s[p - k] = "u" /\ Escaped(s, i, p - k)

\* the character an escape \c stands for, <<>> when there is no such escape
Unescape(s, p) ==
    CASE s[p] \in {"\"", "\\", "/"} -> <<s[p]>>
      [] s[p] = "n" -> <<"\n">>
      [] s[p] = "t" -> <<"\t">>
      [] s[p] = "u" /\ Match(s, p + 1, <<"0", "0", "b", "2">>) -> <<SUP2>>
      [] OTHER -> <<>>

\* what s[p] adds to the string read
Decoded(s, i, p) ==
    IF Escaped(s, i, p) THEN Unescape(s, p)
    ELSE IF s[p] = "\\" \/ InHex(s, i, p) THEN <<>>
    ELSE <<s[p]>>

\* the string read from s[lo .. hi] (by halves, to keep the nesting shallow)
RECURSIVE DecodeRange(_, _, _, _)
DecodeRange(s, i, lo, hi) ==
    IF lo > hi THEN <<>>
    ELSE IF lo = hi THEN Decoded(s, i, lo)
    ELSE DecodeRange(s, i, lo, (lo + hi) \div 2)
            \o DecodeRange(s, i, (lo + hi) \div 2 + 1, hi)

\* The string literal whose first character is s[i], after the opening quote: it
\* ends at the first quote that is not escaped; an unknown escape or a raw control
\* character before it is an error.
BadChars(s, i, end) ==
    {p \in i .. end - 1 :
        \/ Escaped(s, i, p) /\ Unescape(s, p) = <<>>
        \/ Escaped(s, i, p) /\ s[p] = "u" /\ p + 4 >= end
        \/ ~Escaped(s, i, p) /\ s[p] \in {"\n", "\t"}}

StringUpTo(s, i, end) ==
    IF BadChars(s, i, end) # {} THEN Fail
    ELSE [ok |-> TRUE, v |-> DecodeRange(s, i, i, end - 1), i |-> end + 1]

ClosingQuote(s, i, quotes) == IF quotes = {} THEN Fail ELSE StringUpTo(s, i, Min(quotes))

ScanString(s, i) ==
    ClosingQuote(s, i, {j \in i .. Len(s) : s[j] = "\"" /\ ~Escaped(s, i, j)})

RECURSIVE ScanDigits(_, _)
ScanDigits(s, i) == IF IsDecimal(At(s, i)) THEN ScanDigits(s, i + 1) ELSE i

\* the digits s[b .. e - 1] of a number, negated or not
Digits(s, neg, b, e) ==
    IF e = b THEN Fail
    ELSE [ok |-> TRUE,
          v |-> Num(IF neg THEN -DecimalValue(SubSeq(s, b, e - 1))
                           ELSE DecimalValue(SubSeq(s, b, e - 1))),
          i |-> e]

Unsigned(s, neg, b) == Digits(s, neg, b, IF At(s, b) = "0" THEN b + 1 ELSE ScanDigits(s, b))

ScanNumber(s, i) == IF At(s, i) = "-" THEN Unsigned(s, TRUE, i + 1) ELSE Unsigned(s, FALSE, i)

StringValue(q) == IF q.ok THEN [ok |-> TRUE, v |-> Str(q.v), i |-> q.i] ELSE Fail

RECURSIVE ScanValue(_, _), ScanElements(_, _, _), ScanMembers(_, _, _),
          ObjectFrom(_, _), ArrayFrom(_, _), Element(_, _, _), ElementEnd(_, _, _),
          MemberKey(_, _, _), MemberColon(_, _, _, _), MemberValue(_, _, _, _),
          MemberEnd(_, _, _)
ScanValue(s, i) ==
    CASE At(s, i) = "{" -> ObjectFrom(s, SkipWs(s, i + 1))
      [] At(s, i) = "[" -> ArrayFrom(s, SkipWs(s, i + 1))
      [] At(s, i) = "\"" -> StringValue(ScanString(s, i + 1))
      [] Match(s, i, <<"n", "u", "l", "l">>) -> [ok |-> TRUE, v |-> None, i |-> i + 4]
      [] Match(s, i, <<"t", "r", "u", "e">>) -> [ok |-> TRUE, v |-> Bool(TRUE), i |-> i + 4]
      [] Match(s, i, <<"f", "a", "l", "s", "e">>) ->
            [ok |-> TRUE, v |-> Bool(FALSE), i |-> i + 5]
      [] At(s, i) = "-" \/ IsDecimal(At(s, i)) -> ScanNumber(s, i)
      [] OTHER -> Fail

\* after "{" and the whitespace that follows it
ObjectFrom(s, j) ==
    IF At(s, j) = "}" THEN [ok |-> TRUE, v |-> Obj(<<>>), i |-> j + 1]
    ELSE ScanMembers(s, j, <<>>)

\* after "[" and the whitespace that follows it
ArrayFrom(s, j) ==
    IF At(s, j) = "]" THEN [ok |-> TRUE, v |-> Arr(<<>>), i |-> j + 1]
    ELSE ScanElements(s, j, <<>>)

\* the elements of an array, i at the start of the next one
ScanElements(s, i, acc) == Element(s, acc, ScanValue(s, i))

Element(s, acc, r) == IF ~r.ok THEN Fail ELSE ElementEnd(s, Append(acc, r.v), SkipWs(s, r.i))

ElementEnd(s, acc, j) ==
    IF At(s, j) = "," THEN ScanElements(s, SkipWs(s, j + 1), acc)
    ELSE IF At(s, j) = "]" THEN [ok |-> TRUE, v |-> Arr(acc), i |-> j + 1]
    ELSE Fail

\* the members of an object, i at the opening quote of the next key; a repeated
\* key keeps its first place and takes the last value, as the dict does
ScanMembers(s, i, acc) ==
    IF At(s, i) # "\"" THEN Fail ELSE MemberKey(s, acc, ScanString(s, i + 1))

MemberKey(s, acc, k) == IF ~k.ok THEN Fail ELSE MemberColon(s, acc, k.v, SkipWs(s, k.i))

MemberColon(s, acc, key, c) ==
    IF At(s, c) # ":" THEN Fail
    ELSE MemberValue(s, acc, key, ScanValue(s, SkipWs(s, c + 1)))

MemberValue(s, acc, key, r) ==
    IF ~r.ok THEN Fail ELSE MemberEnd(s, Put(acc, key, r.v), SkipWs(s, r.i))

MemberEnd(s, acc, j) ==
    IF At(s, j) = "," THEN ScanMembers(s, SkipWs(s, j + 1), acc)
    ELSE IF At(s, j) = "}" THEN [ok |-> TRUE, v |-> Obj(acc), i |-> j + 1]
    ELSE Fail

\* the whole text must be one value
Whole(text, r) ==
    IF r.ok /\ SkipWs(text, r.i) = Len(text) + 1 THEN r.v ELSE Raised("JSONDecodeError")

loads(text) == Whole(text, ScanValue(text, SkipWs(text, 1)))

(***************************************************************************)
(* json.dumps(value, ensure_ascii=True, default=str): separators ", " and  *)
(* ": ", non-ASCII characters as \uXXXX.                                   *)
(***************************************************************************)
EscapeChar(c) ==
    CASE c = "\"" -> <<"\\", "\"">>
      [] c = "\\" -> <<"\\", "\\">>
      [] c = "\n" -> <<"\\", "n">>
      [] c = "\t" -> <<"\\", "t">>
      [] c = SUP2 -> <<"\\", "u", "0", "0", "b", "2">>
      [] OTHER -> <<c>>

\* the escapes of s[lo .. hi], concatenated (by halves, to keep the nesting shallow)
RECURSIVE Escape(_, _, _)
Escape(s, lo, hi) ==
    IF lo > hi THEN <<>>
    ELSE IF lo = hi THEN EscapeChar(s[lo])
    ELSE Escape(s, lo, (lo + hi) \div 2) \o Escape(s, (lo + hi) \div 2 + 1, hi)

Quote(s) == <<"\"">> \o Escape(s, 1, Len(s)) \o <<"\"">>

RECURSIVE dumps(_), DumpElements(_), DumpMembers(_)
dumps(v) ==
    CASE IsNone(v) -> <<"n", "u", "l", "l">>
      [] IsBool(v) -> IF v.bool THEN <<"t", "r", "u", "e">> ELSE <<"f", "a", "l", "s", "e">>
      [] IsNum(v) -> IntToStr(v.num)
      [] IsStr(v) -> Quote(v.str)
      [] IsArr(v) -> <<"[">> \o DumpElements(v.arr) \o <<"]">>
      [] IsObj(v) -> <<"{">> \o DumpMembers(v.obj) \o <<"}">>

DumpElements(a) ==
    IF a = <<>> THEN <<>>
    ELSE IF Len(a) = 1 THEN dumps(a[1])
    ELSE dumps(a[1]) \o <<",", " ">> \o DumpElements(Tail(a))

DumpMembers(o) ==
    IF o = <<>> THEN <<>>
    ELSE IF Len(o) = 1 THEN Quote(o[1][1]) \o <<":", " ">> \o dumps(o[1][2])
    ELSE Quote(o[1][1]) \o <<":", " ">> \o dumps(o[1][2]) \o <<",", " ">>
            \o DumpMembers(Tail(o))

\* str(value) of a scalar
str(v) ==
    CASE IsStr(v) -> v.str
      [] IsNum(v) -> IntToStr(v.num)
      [] IsBool(v) -> IF v.bool THEN <<"T", "r", "u", "e">> ELSE <<"F", "a", "l", "s", "e">>
      [] IsNone(v) -> <<"N", "o", "n", "e">>

(***************************************************************************)
(* The keys the engine names                                               *)
(***************************************************************************)
K_output == <<"o", "u", "t", "p", "u", "t">>
K_actual == <<"a", "c", "t", "u", "a", "l">>
K_boomi == <<"b", "o", "o", "m", "i">>
K_mft == <<"m", "f", "t">>
K_data == <<"d", "a", "t", "a">>
K_json == <<"j", "s", "o", "n">>
K_text == <<"t", "e", "x", "t">>
K_value == <<"v", "a", "l", "u", "e">>
K_incomingdata == <<"i", "n", "c", "o", "m", "i", "n", "g", "d", "a", "t", "a">>

(***************************************************************************)
(* The engine                                                              *)
(***************************************************************************)
HasRecognized(d) ==
    Has(d, K_output) \/ Has(d, K_actual) \/ Has(d, K_boomi) \/ Has(d, K_mft)

RECURSIVE _unwrap_payload(_), UnwrapItems(_, _, _), UnwrapItem(_, _, _, _)

\* the object branch with the data envelope entered before the object's own keys
\* are looked at
UnwrapDataFirst(p) ==
    IF IsObj(p) THEN
        IF Has(p, K_data) THEN _unwrap_payload(Get(p, K_data))
        ELSE IF HasRecognized(p) THEN p
        ELSE IF Has(p, K_json) /\ IsObj(Get(p, K_json)) THEN Get(p, K_json)
        ELSE p
    ELSE IF IsArr(p) THEN UnwrapItems(p.arr, <<>>, FALSE)
    ELSE None

_unwrap_payload(p) ==
    IF IsObj(p) THEN
        IF HasRecognized(p) THEN p
        ELSE IF Has(p, K_data) THEN _unwrap_payload(Get(p, K_data))
        ELSE IF Has(p, K_json) /\ IsObj(Get(p, K_json)) THEN Get(p, K_json)
        ELSE p
    ELSE IF IsArr(p) THEN UnwrapItems(p.arr, <<>>, FALSE)
    ELSE None

\* the body of the loop with the merge turned round: a key keeps its earlier value
UnwrapItemEarlierWins(rest, merged, found, unwrapped) ==
    IF ~Truthy(unwrapped) THEN UnwrapItems(rest, merged, found)
    ELSE IF HasRecognized(unwrapped) THEN UnwrapItems(rest, update(unwrapped.obj, merged), TRUE)
    ELSE UnwrapItems(rest, merged, found)

\* the loop of _unwrap_payload over a list's items
UnwrapItems(items, merged, found) ==
    IF items = <<>> THEN (IF found THEN Obj(merged) ELSE None)
    ELSE UnwrapItem(Tail(items), merged, found, _unwrap_payload(Head(items)))

\* the body of the loop, on one item's unwrapped value
UnwrapItem(rest, merged, found, unwrapped) ==
    IF ~Truthy(unwrapped) THEN UnwrapItems(rest, merged, found)
    ELSE IF HasRecognized(unwrapped) THEN UnwrapItems(rest, update(merged, unwrapped.obj), TRUE)
    ELSE UnwrapItems(rest, merged, found)

\* try: return json.loads(text); except json.JSONDecodeError: return payload
TryLoads(p, decoded) == IF IsRaised(decoded) THEN p ELSE decoded

\* the branch of _maybe_parse_json on a str, text its stripped form
ParseText(p, text) ==
    IF startswith(text, "{") \/ startswith(text, "[") THEN TryLoads(p, loads(text)) ELSE p

RECURSIVE _maybe_parse_json(_)
_maybe_parse_json(p) ==
    IF IsStr(p) THEN ParseText(p, strip(p.str))
    ELSE IF IsObj(p) /\ IsStr(Get(p, K_text)) THEN _maybe_parse_json(Get(p, K_text))
    ELSE p

\* the loop of _merge_data_list over the items
RECURSIVE MergeItems(_, _), MergeItem(_, _, _)
MergeItems(items, merged) ==
    IF items = <<>> THEN Obj(merged)
    ELSE MergeItem(Tail(items), merged, _maybe_parse_json(Head(items)))

\* the body of the loop, on one parsed item
MergeItem(rest, merged, item) ==
    IF IsObj(item) THEN MergeItems(rest, update(merged, item.obj))
    ELSE MergeItems(rest, merged)

\* _merge_data_list after its payload is parsed
MergeParsed(p) ==
    IF IsObj(p) /\ IsArr(Get(p, K_data)) THEN MergeItems(Get(p, K_data).arr, <<>>)
    ELSE IF IsArr(p) THEN MergeItems(p.arr, <<>>)
    ELSE Obj(<<>>)

_merge_data_list(payload0) == MergeParsed(_maybe_parse_json(payload0))

RECURSIVE _extract_key(_, _), ExtractParsed(_, _), ExtractItems(_, _), ExtractItem(_, _, _)
_extract_key(payload0, key) == ExtractParsed(_maybe_parse_json(payload0), key)

\* _extract_key after its payload is parsed
ExtractParsed(p, key) ==
    IF IsObj(p) /\ Has(p, key) THEN Get(p, key)
    ELSE IF IsObj(p) /\ Has(p, K_data) THEN _extract_key(Get(p, K_data), key)
    ELSE IF IsArr(p) THEN ExtractItems(p.arr, key)
    ELSE None

\* the loop of _extract_key over a list's items
ExtractItems(items, key) ==
    IF items = <<>> THEN None
    ELSE ExtractItem(Tail(items), key, _extract_key(Head(items), key))

\* the body of the loop, on what one item gave
ExtractItem(rest, key, found) == IF ~IsNone(found) THEN found ELSE ExtractItems(rest, key)

\* sorted(keys, key=lambda k: int(k)): a stable sort on the integer value; an int()
\* that raises makes sorted raise
RECURSIVE InsertByInt(_, _)
InsertByInt(done, k) ==
    IF done = <<>> THEN <<k>>
    ELSE IF int(Head(done)).num <= int(k).num
        THEN <<Head(done)>> \o InsertByInt(Tail(done), k)
    ELSE <<k>> \o done

RECURSIVE SortByInt(_)
SortByInt(keys) ==
    IF keys = <<>> THEN <<>>
    ELSE InsertByInt(SortByInt(SubSeq(keys, 1, Len(keys) - 1)), keys[Len(keys)])

sorted(keys) ==
    IF \E i \in DOMAIN keys : IsRaised(int(keys[i]))
    THEN Raised("ValueError")
    ELSE Arr(SortByInt(keys))

\* [row for row in items if isinstance(row, dict)]
RECURSIVE OnlyDicts(_)
OnlyDicts(items) ==
    IF items = <<>> THEN <<>>
    ELSE IF IsObj(Head(items)) THEN <<Head(items)>> \o OnlyDicts(Tail(items))
    ELSE OnlyDicts(Tail(items))

\* the branch of _normalize_actual on a dict whose keys are all digits
Indexed(actual, ordered) ==
    IF IsRaised(ordered) THEN ordered
    ELSE Arr(OnlyDicts([i \in DOMAIN ordered.arr |-> Get(actual, ordered.arr[i])]))

AllDigits(keys) == \A i \in DOMAIN keys : isdigit(keys[i])

_normalize_actual(actual) ==
    IF IsNone(actual) THEN Arr(<<>>)
    ELSE IF IsArr(actual) THEN Arr(OnlyDicts(actual.arr))
    ELSE IF IsObj(actual) THEN
        IF actual.obj # <<>> /\ AllDigits(Keys(actual.obj))
        THEN Indexed(actual, sorted(Keys(actual.obj)))
        ELSE Arr(<<actual>>)
    ELSE Arr(<<Obj(<<<<K_value, actual>>>>)>>)

\* the inner loop of _ordered_columns over one row's keys
RECURSIVE SeeKeys(_, _)
SeeKeys(seen, keys) ==
    IF keys = <<>> THEN seen
    ELSE IF Head(keys) \in Range(seen) THEN SeeKeys(seen, Tail(keys))
    ELSE SeeKeys(Append(seen, Head(keys)), Tail(keys))

\* the outer loop of _ordered_columns over the rows
RECURSIVE SeeRows(_, _)
SeeRows(seen, rows) ==
    IF rows = <<>> THEN seen
    ELSE SeeRows(SeeKeys(seen, Keys(Head(rows).obj)), Tail(rows))

\* the columns without the default
OrNothing(seen) == seen

\* seen or ["value"]
OrValue(seen) == IF seen # <<>> THEN seen ELSE <<K_value>>

_ordered_columns(rows) == OrValue(SeeRows(<<>>, rows))

CellLimit == 200
Ellipsis == <<".", ".", ".">>

\* text[:n]
Slice(text, n) == SubSeq(text, 1, IF Len(text) < n THEN Len(text) ELSE n)

\* the scalar branch cutting a text of exactly the limit too
CellTextAtLimit(text) == IF Len(text) >= CellLimit THEN Slice(text, CellLimit) \o Ellipsis ELSE text

\* the branch of _display_cell on a scalar, text its str()
CellText(text) == IF Len(text) > CellLimit THEN Slice(text, CellLimit) \o Ellipsis ELSE text

_display_cell(value) ==
    IF IsNone(value) THEN <<"N", "A">>
    ELSE IF IsObj(value) \/ IsArr(value) THEN Slice(dumps(value), CellLimit) \o Ellipsis
    ELSE CellText(str(value))

\* the loop of _get_incoming_data over the row's items
RECURSIVE FirstIncoming(_)
FirstIncoming(items) ==
    IF items = <<>> THEN None
    ELSE IF lower(Head(items)[1]) = K_incomingdata THEN Head(items)[2]
    ELSE FirstIncoming(Tail(items))

_get_incoming_data(row) == FirstIncoming(row.obj)

EmptyWords == {<<"n", "a">>, <<"n", "/", "a">>, <<"n", "u", "l", "l">>}

\* the emptiness test comparing the words as written, not lower-cased
IsEmptyValueAsWritten(value) ==
    IF IsNone(value) THEN TRUE
    ELSE IF IsStr(value) /\ strip(value.str) = <<>> THEN TRUE
    ELSE IF IsStr(value) /\ strip(value.str) \in EmptyWords THEN TRUE
    ELSE IF IsArr(value) /\ Len(value.arr) = 0 THEN TRUE
    ELSE IF IsObj(value) /\ Len(value.obj) = 0 THEN TRUE
    ELSE FALSE

_is_empty_value(value) ==
    IF IsNone(value) THEN TRUE
    ELSE IF IsStr(value) /\ strip(value.str) = <<>> THEN TRUE
    ELSE IF IsStr(value) /\ lower(strip(value.str)) \in EmptyWords THEN TRUE
    ELSE IF IsArr(value) /\ Len(value.arr) = 0 THEN TRUE
    ELSE IF IsObj(value) /\ Len(value.obj) = 0 THEN TRUE
    ELSE FALSE

RECURSIVE _filter_empty_rows(_)
_filter_empty_rows(rows) ==
    IF rows = <<>> THEN <<>>
    ELSE IF ~IsObj(Head(rows)) THEN _filter_empty_rows(Tail(rows))
    ELSE IF \A i \in DOMAIN Head(rows).obj : _is_empty_value(Head(rows).obj[i][2])
        THEN _filter_empty_rows(Tail(rows))
    ELSE <<Head(rows)>> \o _filter_empty_rows(Tail(rows))

\* [c for c in columns if c.lower() != "incomingdata"]
RECURSIVE ShownColumns(_)
ShownColumns(columns) ==
    IF columns = <<>> THEN <<>>
    ELSE IF lower(Head(columns)) # K_incomingdata
        THEN <<Head(columns)>> \o ShownColumns(Tail(columns))
    ELSE ShownColumns(Tail(columns))

\* value not in (None, ""): the empty list is exposed too
ExposedEmptyList(value) == value # None /\ value # Str(<<>>)

\* value not in (None, "", [])
Exposed(value) == value # None /\ value # Str(<<>>) /\ value # Arr(<<>>)

\* incoming_lookup: the drill-down value of each display row (indexed from 0) that
\* has one to expose
IncomingLookup(rows) ==
    [idx \in {i \in 0 .. Len(rows) - 1 : Exposed(_get_incoming_data(rows[i + 1]))}
        |-> _get_incoming_data(rows[idx + 1])]

\* display_rows: each row's cells under the shown columns
DisplayRows(rows, columns) ==
    [i \in DOMAIN rows |->
        Obj([c \in DOMAIN columns |->
                <<columns[c], Str(_display_cell(Get(rows[i], columns[c])))>>])]

\* the dialog opened for the selected row, None when none is
Dialog(incoming_lookup, selected_rows) ==
    IF selected_rows # <<>> /\ selected_rows[1] \in DOMAIN incoming_lookup
    THEN incoming_lookup[selected_rows[1]]
    ELSE None

\* _render_actual_table once the empty rows are filtered out
Table(rows, incoming_lookup, selected_rows) ==
    IF rows = <<>> THEN [write |-> "NA"]
    ELSE [columns |-> ShownColumns(_ordered_columns(rows)),
          display_rows |-> DisplayRows(rows, ShownColumns(_ordered_columns(rows))),
          incoming_lookup |-> incoming_lookup,
          dialog |-> Dialog(incoming_lookup, selected_rows)]

FilteredTable(rows, selected_rows) == Table(rows, IncomingLookup(rows), selected_rows)

\* _render_actual_table(rows) with the row selection the table widget reports:
\* what is written in place of the table, or the columns, the display rows, the
\* drill-down values and the dialog opened for the selected row.
_render_actual_table(rows, selected_rows) ==
    FilteredTable(_filter_empty_rows(rows), selected_rows)

\* the Summary section of render
Summary(output) ==
    IF IsStr(output) /\ strip(output.str) # <<>> THEN [write |-> Str(strip(output.str))]
    ELSE IF ~IsNone(output) THEN [json |-> output]
    ELSE [write |-> Str(<<"N", "A">>)]

\* merged.get(key) or unwrapped.get(key) or _extract_key(response_data, key)
Resolve(response_data, key) ==
    Or(Or(Get(_merge_data_list(response_data), key),
          Get(Or(_unwrap_payload(response_data), Obj(<<>>)), key)),
       _extract_key(response_data, key))

\* the three sections of render, rows and mft_rows what _normalize_actual gave
Sections(output, actual, mft, rows, mft_rows, boomi_selected, mft_selected) ==
    IF IsRaised(rows) THEN rows
    ELSE IF IsRaised(mft_rows) THEN mft_rows
    ELSE [output |-> output,
          actual |-> actual,
          mft |-> mft,
          summary |-> Summary(output),
          boomi_table |-> _render_actual_table(rows.arr, boomi_selected),
          mft_table |-> _render_actual_table(mft_rows.arr, mft_selected)]

Resolved(output, actual, mft, boomi_selected, mft_selected) ==
    Sections(output, actual, mft, _normalize_actual(actual), _normalize_actual(mft),
             boomi_selected, mft_selected)

Parsed(response_data, boomi_selected, mft_selected) ==
    Resolved(Resolve(response_data, K_output), Resolve(response_data, K_boomi),
             Resolve(response_data, K_mft), boomi_selected, mft_selected)

\* render() on the response held in the session, with the row selections the two
\* tables report: the info notice when there is no response, else the three
\* sections; an exception of _normalize_actual leaves render.
render(response, boomi_selected, mft_selected) ==
    IF ~Truthy(response) THEN [info |-> "Submit a Document ID to view results."]
    ELSE Parsed(_maybe_parse_json(response), boomi_selected, mft_selected)

(***************************************************************************)
(* The values the engine is run on                                         *)
(***************************************************************************)
MaxRows == 2
MaxEntries == 2
MaxItems == 2
WrapDepth == 2

SeqsUpTo(S, n) == UNION {[1 .. k -> S] : k \in 0 .. n}

Repeat(c, n) == [i \in 1 .. n |-> c]

RowDrill == Obj(<<<<<<"i", "d">>, Num(1)>>, <<<<"i", "n", "c", "o", "m", "i", "n", "g", "D", "a", "t", "a">>, Str(<<"R", "A", "W">>)>>>>)
RowBA == Obj(<<<<<<"b">>, Num(1)>>, <<<<"a">>, Num(2)>>>>)
RowAC == Obj(<<<<<<"a">>, Num(3)>>, <<<<"c">>, Num(4)>>>>)
RowBlank == Obj(<<<<<<"a">>, None>>, <<<<"b">>, Str(<<" ">>)>>>>)
RowNA == Obj(<<<<<<"a">>, Str(<<"N", "/", "A">>)>>, <<<<"b">>, Arr(<<>>)>>>>)
RowOneCell == Obj(<<<<<<"a">>, Str(<<" ", "n", "u", "l", "l", " ">>)>>, <<<<"b">>, Str(<<"x">>)>>>>)
RowNoKeys == Obj(<<>>)
RowTwoDrill == Obj(<<<<<<"i", "n", "c", "o", "m", "i", "n", "g", "D", "a", "t", "a">>, None>>, <<<<"I", "N", "C", "O", "M", "I", "N", "G", "D", "A", "T", "A">>, Str(<<"R", "A", "W", "2">>)>>, <<<<"a">>, Num(0)>>>>)
RowEmptyDrill == Obj(<<<<<<"i", "n", "c", "o", "m", "i", "n", "g", "D", "a", "t", "a">>, Arr(<<>>)>>, <<<<"a">>, Str(<<"x">>)>>>>)
RowOnlyDrill == Obj(<<<<<<"I", "N", "C", "O", "M", "I", "N", "G", "D", "A", "T", "A">>, Obj(<<<<<<"k">>, Num(1)>>>>)>>>>)
RowValue == Obj(<<<<K_value, Num(5)>>>>)
RowDropped == Obj(<<<<<<"i", "n", "c", "o", "m", "i", "n", "g", "d", "a", "t", "a">>, Obj(<<>>)>>, <<<<"a">>, Str(<<"n", "a">>)>>>>)

Rows == {RowDrill, RowBA, RowAC, RowBlank, RowNA, RowOneCell, RowNoKeys, RowTwoDrill, RowEmptyDrill, RowOnlyDrill, RowValue, RowDropped}

RowLists == {Arr(rows) : rows \in SeqsUpTo(Rows, MaxRows)}

\* cell values, the long ones around the display limit of 200 characters
Cells ==
    {None,
     Str(<<>>),
     Str(<<" ">>),
     Str(<<"n", "a">>),
     Str(<<"N", "A">>),
     Str(<<" ", "n", "/", "a", "\n">>),
     Str(<<"N", "u", "l", "l">>),
     Str(<<"n", "a", "n">>),
     Str(<<"x">>),
     Num(0),
     Num(-12),
     Bool(FALSE),
     Bool(TRUE),
     Arr(<<>>),
     Obj(<<>>),
     Arr(<<None>>),
     Obj(<<<<<<"a">>, None>>>>)}
    \cup {Str(Repeat("a", n)) : n \in {CellLimit - 1, CellLimit, CellLimit + 1, CellLimit + 50}}
    \cup {Arr(<<Str(Repeat("a", n))>>) : n \in {CellLimit - 5, CellLimit - 4, CellLimit - 3}}
    \cup {Obj(<<<<K_value, Str(Repeat("\"", CellLimit))>>>>)}

\* objects keyed like a list: the keys in every order, object and scalar entries
IndexKeys == {<<"0">>, <<"2">>, <<"1", "0">>, <<"0", "2">>, <<SUP2>>, <<"a">>}

IndexedObjects ==
    {Obj(o) : o \in {e \in SeqsUpTo(IndexKeys \X {RowBA, RowAC, Num(5)}, MaxEntries) :
                        \A i, j \in DOMAIN e : i # j => e[i][1] # e[j][1]}}

\* the items of a list payload
Items ==
    {Obj(<<<<<<"f", "o", "o">>, Num(1)>>>>),
     Obj(<<<<<<"b", "o", "o", "m", "i">>, Arr(<<RowBA>>)>>>>),
     Obj(<<<<<<"o", "u", "t", "p", "u", "t">>, Str(<<"a">>)>>, <<<<"b", "o", "o", "m", "i">>, Arr(<<>>)>>>>),
     Obj(<<<<<<"d", "a", "t", "a">>, Obj(<<<<<<"m", "f", "t">>, Arr(<<RowAC>>)>>>>)>>>>),
     Arr(<<Obj(<<<<<<"a", "c", "t", "u", "a", "l">>, Num(1)>>>>)>>),
     None,
     Obj(<<>>),
     Str(<<"s">>),
     Obj(<<<<<<"j", "s", "o", "n">>, Obj(<<<<<<"o", "u", "t", "p", "u", "t">>, Str(<<"j">>)>>>>)>>>>),
     Str(dumps(Obj(<<<<<<"m", "f", "t">>, Arr(<<RowBA>>)>>>>)))}

ItemLists == {Arr(items) : items \in SeqsUpTo(Items, MaxItems)}

\* fragments of a response, and the envelopes a response wraps them in
Fragments ==
    {Obj(<<<<<<"o", "u", "t", "p", "u", "t">>, Str(<<"S", "u", "m", "m", "a", "r", "y", " ", "t", "e", "x", "t">>)>>>>),
     Obj(<<<<<<"b", "o", "o", "m", "i">>, Arr(<<RowDrill>>)>>>>),
     Obj(<<<<<<"f", "o", "o">>, Num(1)>>>>),
     Arr(<<Obj(<<<<<<"o", "u", "t", "p", "u", "t">>, Str(<<"S", "u", "m", "m", "a", "r", "y", " ", "t", "e", "x", "t">>)>>>>), Obj(<<<<<<"b", "o", "o", "m", "i">>, Arr(<<RowDrill>>)>>>>)>>),
     Str(<<"p", "l", "a", "i", "n">>),
     None,
     Str(<<"{", "b", "a", "d">>),
     Str(<<"[", "1", "]", " ", "x">>)}

Envelopes(v) ==
    {Str(dumps(v)),
     Str(<<" ">> \o dumps(v) \o <<"\n">>),
     Obj(<<<<K_text, IF IsStr(v) THEN v ELSE Str(dumps(v))>>>>),
     Obj(<<<<K_data, v>>>>),
     Obj(<<<<K_json, v>>>>),
     Arr(<<v>>)}

RECURSIVE Wrapped(_)
Wrapped(depth) ==
    IF depth = 0 THEN Fragments
    ELSE Wrapped(depth - 1) \cup UNION {Envelopes(v) : v \in Wrapped(depth - 1)}

\* responses whose three candidates for a field differ: the field at the top level
\* or not, and in the fragments of the data list
Candidates == {None, Str(<<>>), Str(<<" ">>), Str(<<"X">>), Num(0), Arr(<<>>), Arr(<<RowBA>>)}

Others == {None, Str(<<"Y">>), Arr(<<RowAC>>)}

ResolutionResponses ==
    UNION {{Obj(<<<<key, u>>, <<K_data, Arr(<<Obj(<<<<key, m>>>>)>>)>>>>),
            Obj(<<<<K_data, Arr(<<Obj(<<<<key, m>>>>)>>)>>>>),
            Obj(<<<<K_actual, Num(1)>>,
                  <<K_data, Arr(<<Obj(<<<<key, u>>>>), Obj(<<<<key, m>>>>)>>)>>>>)}
           : <<key, m, u>> \in {K_output, K_boomi, K_mft} \X Candidates \X Others}

\* responses that carry a dataset
DatasetResponses ==
    {Obj(<<<<K_boomi, v>>>>) : v \in RowLists \cup IndexedObjects \cup Cells}

Inputs ==
    RowLists \cup Rows \cup Cells \cup IndexedObjects \cup ItemLists
        \cup Wrapped(WrapDepth) \cup ResolutionResponses \cup DatasetResponses

(***************************************************************************)
(* The engine run on one payload: each action is one call of a function   *)
(* on it, under the types the function is annotated with.                  *)
(***************************************************************************)
IsRowList(v) == IsArr(v) /\ \A i \in DOMAIN v.arr : IsObj(v.arr[i])

Selections(n) == {<<>>} \cup {<<i>> : i \in 0 .. n - 1}

\* what a call ends with: the value returned, or the exception that leaves it
Returned(value) == [returned |-> value]
Outcome(value) == IF IsRaised(value) THEN value ELSE Returned(value)

Init ==
    /\ payload \in Inputs
    /\ called = "none"
    /\ result = Returned(None)

Call(function, outcome) ==
    /\ called = "none"
    /\ called' = function
    /\ result' = outcome
    /\ UNCHANGED payload

Call_maybe_parse_json == Call("_maybe_parse_json", Returned(_maybe_parse_json(payload)))

Call_merge_data_list == Call("_merge_data_list", Returned(_merge_data_list(payload)))

Call_unwrap_payload == Call("_unwrap_payload", Returned(_unwrap_payload(payload)))

Call_extract_key ==
    \E key \in {K_output, K_boomi, K_mft} :
        Call("_extract_key", Returned([key |-> key, found |-> _extract_key(payload, key)]))

Call_normalize_actual == Call("_normalize_actual", Outcome(_normalize_actual(payload)))

Call_ordered_columns ==
    /\ IsRowList(payload)
    /\ Call("_ordered_columns", Returned(_ordered_columns(payload.arr)))

Call_display_cell == Call("_display_cell", Returned(_display_cell(payload)))

Call_get_incoming_data ==
    /\ IsObj(payload)
    /\ Call("_get_incoming_data", Returned(_get_incoming_data(payload)))

Call_is_empty_value == Call("_is_empty_value", Returned(_is_empty_value(payload)))

Call_filter_empty_rows ==
    /\ IsRowList(payload)
    /\ Call("_filter_empty_rows", Returned(_filter_empty_rows(payload.arr)))

Call_render_actual_table ==
    /\ IsRowList(payload)
    /\ \E selected_rows \in Selections(Len(_filter_empty_rows(payload.arr))) :
        Call("_render_actual_table", Returned(_render_actual_table(payload.arr, selected_rows)))

\* the client hands render a dict
Call_render ==
    /\ IsObj(payload)
    /\ \E boomi_selected, mft_selected \in Selections(MaxRows) :
        Call("render", Outcome(render(payload, boomi_selected, mft_selected)))

Next ==
    \/ Call_maybe_parse_json
    \/ Call_merge_data_list
    \/ Call_unwrap_payload
    \/ Call_extract_key
    \/ Call_normalize_actual
    \/ Call_ordered_columns
    \/ Call_display_cell
    \/ Call_get_incoming_data
    \/ Call_is_empty_value
    \/ Call_filter_empty_rows
    \/ Call_render_actual_table
    \/ Call_render

Spec == Init /\ [][Next]_vars

(***************************************************************************)
(* The claims                                                              *)
(***************************************************************************)
Recognized == {K_output, K_actual, K_boomi, K_mft}

KeySet(d) == {d.obj[i][1] : i \in DOMAIN d.obj}

\* present and not empty: not null and, for a string, not blank
NonEmpty(v) == ~IsNone(v) /\ (IsStr(v) => \E i \in DOMAIN v.str : v.str[i] \notin Whitespace)

\* the three candidates of a field, in priority order
CandidatesOf(response, key) ==
    LET response_data == _maybe_parse_json(response)
    IN  <<Get(_merge_data_list(response_data), key),
          Get(Or(_unwrap_payload(response_data), Obj(<<>>)), key),
          _extract_key(response_data, key)>>

Rendered == called = "render" /\ DOMAIN result = {"returned"} /\ "output" \in DOMAIN result.returned

\* C1: for each field of output, boomi, mft, render resolves the first of the
\* candidates merged[F], unwrapped[F], extract(raw, F) that is present and not empty
\* (not null and, for a string, not blank).
C1_FirstNonEmptyCandidateWins ==
    Rendered =>
        \A f \in {<<K_output, "output">>, <<K_boomi, "actual">>, <<K_mft, "mft">>} :
            LET c == CandidatesOf(payload, f[1])
                present == {i \in DOMAIN c : NonEmpty(c[i])}
            IN  present # {} => result.returned[f[2]] = c[Min(present)]

\* C2: parse is idempotent: parsing what _maybe_parse_json returned gives it back.
C2_ParseIdempotent ==
    called = "_maybe_parse_json" => _maybe_parse_json(result.returned) = result.returned

\* C3: no error escapes the engine: every stage returns a value instead of raising, a
\* string whose decode fails is returned unchanged, and normalize returns a sequence
\* of row records.
C3_NoErrorEscapes ==
    /\ ~IsRaised(result)
    /\ called = "_normalize_actual" => IsRowList(result.returned)
    /\ (called = "_maybe_parse_json" /\ IsStr(payload)
            /\ IsRaised(loads(strip(payload.str)))) => result.returned = payload

\* an array-like object: not empty and every key a non-negative-integer string
ArrayLike(o) ==
    /\ o.obj # <<>>
    /\ \A i \in DOMAIN o.obj :
           o.obj[i][1] # <<>> /\ \A j \in DOMAIN o.obj[i][1] : IsDecimal(o.obj[i][1][j])

\* rows is the object-valued entries of o, each once, in ascending numeric key order
AscendingEntries(o, rows) ==
    LET objects == {i \in DOMAIN o.obj : IsObj(o.obj[i][2])}
    IN  /\ Len(rows) = Cardinality(objects)
        /\ \E order \in [DOMAIN rows -> objects] :
               /\ \A i, j \in DOMAIN rows : i < j => order[i] # order[j]
               /\ \A i, j \in DOMAIN rows :
                      i < j => DecimalValue(o.obj[order[i]][1]) <= DecimalValue(o.obj[order[j]][1])
               /\ \A i \in DOMAIN rows : rows[i] = o.obj[order[i]][2]

\* the objects that hold the entries of o in another order
Reordered(o) ==
    {Obj([i \in DOMAIN o.obj |-> o.obj[q[i]]]) :
        q \in {f \in [DOMAIN o.obj -> DOMAIN o.obj] :
                  \A i, j \in DOMAIN o.obj : i # j => f[i] # f[j]}}

\* C5: on an object, normalize returns the object-valued entries in ascending numeric
\* key order, whatever the order of the keys in the input, when the object is
\* array-like (non-empty, every key a non-negative-integer string), and the one-row
\* sequence [obj] for every other object; normalize(none) = [] and normalize([]) = [].
C5_NormalizeObject ==
    called = "_normalize_actual" =>
        /\ IsNone(payload) => result = Returned(Arr(<<>>))
        /\ payload = Arr(<<>>) => result = Returned(Arr(<<>>))
        /\ (IsObj(payload) /\ ~ArrayLike(payload)) => result = Returned(Arr(<<payload>>))
        /\ (IsObj(payload) /\ ArrayLike(payload)) =>
               /\ DOMAIN result = {"returned"}
               /\ IsArr(result.returned)
               /\ AscendingEntries(payload, result.returned.arr)
               /\ \A o \in Reordered(payload) : Outcome(_normalize_actual(o)) = result

\* empty: null, a blank string, one of the words na, n/a, null in any case once
\* trimmed, or an empty array or object
EmptyValue(v) ==
    \/ IsNone(v)
    \/ IsStr(v) /\ \A i \in DOMAIN v.str : v.str[i] \in Whitespace
    \/ IsStr(v) /\ lower(strip(v.str)) \in {<<"n", "a">>, <<"n", "/", "a">>, <<"n", "u", "l", "l">>}
    \/ IsArr(v) /\ v.arr = <<>>
    \/ IsObj(v) /\ v.obj = <<>>

HasValue(row) == \E i \in DOMAIN row.obj : ~EmptyValue(row.obj[i][2])

\* the places of a row's keys that equal incomingdata case-insensitively
DrillKeys(row) == {i \in DOMAIN row.obj : lower(row.obj[i][1]) = K_incomingdata}

DrillValue(row) == row.obj[Min(DrillKeys(row))][2]

HasDrillDown(row) ==
    /\ DrillKeys(row) # {}
    /\ ~IsNone(DrillValue(row))
    /\ DrillValue(row) # Str(<<>>)
    /\ DrillValue(row) # Arr(<<>>)

TableDrawn == called = "_render_actual_table" /\ "columns" \in DOMAIN result.returned

\* C4: in the rendered table no column equals incomingdata case-insensitively, every
\* display row has exactly the rendered columns as keys, and the drill-down value of
\* displayed row i (counted after empty-row filtering) is the value of the row's first
\* key equal to incomingdata case-insensitively, exposed if and only if it is not
\* null, not the empty string and not an empty array.
C4_DrillDownAndColumnExclusion ==
    TableDrawn =>
        LET table == result.returned
            kept == SelectSeq(payload.arr, HasValue)
        IN  /\ \A c \in DOMAIN table.columns : lower(table.columns[c]) # K_incomingdata
            /\ Len(table.display_rows) = Len(kept)
            /\ \A r \in DOMAIN table.display_rows :
                   Keys(table.display_rows[r].obj) = table.columns
            /\ \A i \in 0 .. Len(kept) - 1 :
                   IF HasDrillDown(kept[i + 1])
                   THEN /\ i \in DOMAIN table.incoming_lookup
                        /\ table.incoming_lookup[i] = DrillValue(kept[i + 1])
                   ELSE i \notin DOMAIN table.incoming_lookup
            /\ payload = Arr(<<RowDrill>>) =>
                   /\ table.columns = << <<"i", "d">> >>
                   /\ table.display_rows = <<Obj(<< << <<"i", "d">>, Str(<<"1">>) >> >>)>>
                   /\ table.incoming_lookup[0] = Str(<<"R", "A", "W">>)

\* C4 happens: a row with a drill-down value is displayed after a dropped row, so its
\* displayed index differs from its index in the input
C4_Witness ==
    /\ TableDrawn
    /\ payload = Arr(<<RowBlank, RowDrill>>)
    /\ DOMAIN result.returned.incoming_lookup = {0}
    /\ result.returned.incoming_lookup[0] = Str(<<"R", "A", "W">>)

HasRecognizedKey(v) == IsObj(v) /\ KeySet(v) \cap Recognized # {}

\* the items of an array whose unwrap result contains a recognized key
Matching(items) == {i \in DOMAIN items : HasRecognizedKey(_unwrap_payload(items[i]))}

\* d is the later-wins shallow merge of the unwrap results of the matching items
LaterWinsMerge(d, items) ==
    /\ IsObj(d)
    /\ KeySet(d) = UNION {KeySet(_unwrap_payload(items[i])) : i \in Matching(items)}
    /\ \A k \in KeySet(d) :
           Get(d, k) = Get(_unwrap_payload(items[
                               Max({i \in Matching(items) : Has(_unwrap_payload(items[i]), k)})]), k)

\* C6: on an array, _unwrap_payload returns the later-wins shallow merge of exactly
\* the items' unwrap results that contain one of the keys output, actual, boomi, mft,
\* and none if and only if no item's unwrap result contains one.
C6_UnwrapArray ==
    (called = "_unwrap_payload" /\ IsArr(payload)) =>
        /\ IsNone(result.returned) <=> Matching(payload.arr) = {}
        /\ Matching(payload.arr) # {} => LaterWinsMerge(result.returned, payload.arr)
        /\ payload = Arr(<<Obj(<< <<<<"f", "o", "o">>, Num(1)>> >>),
                           Obj(<< <<K_boomi, Arr(<<RowBA>>)>> >>)>>) =>
               result.returned = Obj(<< <<K_boomi, Arr(<<RowBA>>)>> >>)

\* C6 happens: two matching items hold the same key and the later one's value is kept
C6_Witness ==
    /\ called = "_unwrap_payload"
    /\ payload = Arr(<<Obj(<< <<K_boomi, Arr(<<RowBA>>)>> >>),
                       Obj(<< <<K_output, Str(<<"a">>)>>, <<K_boomi, Arr(<<>>)>> >>)>>)
    /\ result.returned = Obj(<< <<K_boomi, Arr(<<>>)>>, <<K_output, Str(<<"a">>)>> >>)

\* the containers of v in depth-first order: an object, then what its data and its
\* json envelope hold; an array, then what its items hold in order
RECURSIVE Nodes(_), NodesOf(_)
Nodes(v) ==
    IF IsObj(v)
    THEN <<v>> \o (IF Has(v, K_data) THEN Nodes(Get(v, K_data)) ELSE <<>>)
               \o (IF Has(v, K_json) THEN Nodes(Get(v, K_json)) ELSE <<>>)
    ELSE IF IsArr(v) THEN <<v>> \o NodesOf(v.arr)
    ELSE <<>>

NodesOf(items) == IF items = <<>> THEN <<>> ELSE Nodes(Head(items)) \o NodesOf(Tail(items))

Hits(nodes) == {i \in DOMAIN nodes : HasRecognizedKey(nodes[i])}

\* C7 as stated: whenever _unwrap_payload(v) returns an object, it is the first
\* container met in a depth-first search of v (through data/json envelopes and array
\* items in order) whose own keys include one of output, actual, boomi, mft.
C7_FirstRecognizedContainer ==
    (called = "_unwrap_payload" /\ IsObj(result.returned)) =>
        /\ Hits(Nodes(payload)) # {}
        /\ result.returned = Nodes(payload)[Min(Hits(Nodes(payload)))]

\* C7 amended: whenever _unwrap_payload(v) returns an object that has one of the keys
\* output, actual, boomi, mft, and the depth-first search of v meets no array before
\* its first container with such a key, the returned object is that container.
C7_FirstRecognizedContainerNoArray ==
    (called = "_unwrap_payload" /\ HasRecognizedKey(result.returned)) =>
        /\ Hits(Nodes(payload)) # {}
        /\ (\A i \in 1 .. Min(Hits(Nodes(payload))) : ~IsArr(Nodes(payload)[i]))
               => result.returned = Nodes(payload)[Min(Hits(Nodes(payload)))]

\* C7 happens: the returned object lies two envelopes deep, inside data and json
C7_Witness ==
    /\ called = "_unwrap_payload"
    /\ payload = Obj(<< <<K_data, Obj(<< <<K_json, Obj(<< <<K_boomi, Arr(<<RowDrill>>)>> >>)>> >>)>> >>)
    /\ result.returned = Obj(<< <<K_boomi, Arr(<<RowDrill>>)>> >>)

\* the keys of the rows as a scan meets them: rows in order, each row's keys in order
RECURSIVE ScannedKeys(_)
ScannedKeys(rows) ==
    IF rows = <<>> THEN <<>> ELSE Keys(Head(rows).obj) \o ScannedKeys(Tail(rows))

FirstSeen(keys, k) == Min({i \in DOMAIN keys : keys[i] = k})

\* cols holds every scanned key once, in the order of the keys' first occurrences
FirstSeenOrder(cols, keys) ==
    /\ \A i, j \in DOMAIN cols : i # j => cols[i] # cols[j]
    /\ Range(keys) \subseteq Range(cols)
    /\ \A i, j \in DOMAIN cols :
           (i < j /\ cols[i] \in Range(keys) /\ cols[j] \in Range(keys))
               => FirstSeen(keys, cols[i]) < FirstSeen(keys, cols[j])

ColumnsExample ==
    payload = Arr(<<RowBA, RowAC>>) => result.returned = << <<"b">>, <<"a">>, <<"c">> >>

\* C8 as stated: _ordered_columns returns distinct keys, every key of every row among
\* them, in first-occurrence order, and returns ["value"] exactly when no row has any
\* key.
C8_OrderedColumnsValueExactly ==
    called = "_ordered_columns" =>
        /\ FirstSeenOrder(result.returned, ScannedKeys(payload.arr))
        /\ result.returned = <<K_value>> <=> ScannedKeys(payload.arr) = <<>>
        /\ ColumnsExample

\* C8 amended: _ordered_columns returns distinct keys, every key of every row among
\* them, in first-occurrence order; it returns ["value"] whenever no row has any key,
\* and otherwise exactly the keys of the rows (so ["value"] is returned also when
\* value is the rows' only key).
C8_OrderedColumns ==
    called = "_ordered_columns" =>
        /\ FirstSeenOrder(result.returned, ScannedKeys(payload.arr))
        /\ ScannedKeys(payload.arr) = <<>> => result.returned = <<K_value>>
        /\ ScannedKeys(payload.arr) # <<>> =>
               Range(result.returned) = Range(ScannedKeys(payload.arr))
        /\ ColumnsExample

\* C8 happens: the columns of a row whose only key is value
C8_Witness ==
    /\ called = "_ordered_columns"
    /\ payload = Arr(<<RowValue>>)
    /\ result.returned = <<K_value>>

\* C9: _filter_empty_rows keeps the relative order of rows and drops a row if and
\* only if every one of its values is empty (null, a blank string, na, n/a or null in
\* any case once trimmed, an empty array or object).
C9_FilterEmptyRows ==
    called = "_filter_empty_rows" => result.returned = SelectSeq(payload.arr, HasValue)

\* C9 happens: a row of empty values is dropped and a row with one non-empty cell
\* among empty ones is retained
C9_Witness ==
    /\ called = "_filter_empty_rows"
    /\ payload = Arr(<<RowNA, RowOneCell>>)
    /\ result.returned = <<RowOneCell>>

IsScalar(v) == IsBool(v) \/ IsNum(v) \/ IsStr(v)

First(text, n) == SubSeq(text, 1, Min({n, Len(text)}))

\* C10: _display_cell(v) has at most 203 characters; none gives "NA"; a scalar whose
\* string form has at most 200 characters is returned unchanged, a longer one gives
\* its first 200 characters and "..."; an object or array gives the first 200
\* characters of its serialization and "..." always.
C10_DisplayCellBounded ==
    called = "_display_cell" =>
        /\ Len(result.returned) <= CellLimit + 3
        /\ IsNone(payload) => result.returned = <<"N", "A">>
        /\ (IsScalar(payload) /\ Len(str(payload)) <= CellLimit) =>
               result.returned = str(payload)
        /\ (IsScalar(payload) /\ Len(str(payload)) > CellLimit) =>
               result.returned = First(str(payload), CellLimit) \o <<".", ".", ".">>
        /\ (IsObj(payload) \/ IsArr(payload)) =>
               result.returned = First(dumps(payload), CellLimit) \o <<".", ".", ".">>
        /\ payload = Str(Repeat("a", CellLimit + 50)) => Len(result.returned) = CellLimit + 3

\* C10 happens: a 250-character string is cut to 200 characters and the marker
C10_Witness ==
    /\ called = "_display_cell"
    /\ payload = Str(Repeat("a", CellLimit + 50))
    /\ result.returned = Repeat("a", CellLimit) \o <<".", ".", ".">>

====
